---- MODULE Spec2Model ----
(***************************************************************************)
(* Lib/csv.py, class Sniffer: the quote/delimiter co-occurrence detector   *)
(* (_guessQuoteAndDelimiter), the frequency-based delimiter detector       *)
(* (_guessDelimiter), the orchestrator (sniff) and the header detector     *)
(* (_hasHeaders).                                                          *)
(*                                                                         *)
(* A Python string is a sequence of one-character strings; a list of lines *)
(* is a sequence of such sequences.  None is the record NoneValue.         *)
(***************************************************************************)
EXTENDS Integers, Sequences, FiniteSets, TLC

VARIABLES
    pc,               \* position of the modelled call
    sample,           \* sniff: the data read from the file object
    quotechar,        \* sniff: local quotechar
    delimiter,        \* sniff: local delimiter (NoneValue or a string)
    skipinitialspace, \* sniff: local skipinitialspace
    winner,           \* _guessQuoteAndDelimiter: index of the pattern that matched, 0 if none
    consulted,        \* sniff: whether _guessDelimiter was called
    dialect,          \* sniff: self.dialect
    data,             \* _guessDelimiter: the non-empty lines
    chunkLength,      \* _guessDelimiter
    iteration,        \* _guessDelimiter
    charFrequency,    \* _guessDelimiter: char -> (frequency -> number of lines)
    modes,            \* _guessDelimiter: char -> <<frequency, adjusted tally>>
    delims,           \* _guessDelimiter: char -> <<frequency, adjusted tally>>
    start,            \* _guessDelimiter
    end,              \* _guessDelimiter
    total,            \* _guessDelimiter: the denominator of the last pass
    guess,            \* _guessDelimiter: the returned (delim, skipinitialspace)
    header,           \* _hasHeaders: the first row
    columnTypes,      \* _hasHeaders: column -> shape
    checked,          \* _hasHeaders
    seen,             \* _hasHeaders: per column, what the examined rows showed (history)
    hasHeader,        \* _hasHeaders: the tally of votes
    verdict           \* _hasHeaders: the returned value

sniffVars == <<sample, quotechar, delimiter, skipinitialspace, winner, consulted, dialect>>
freqVars  == <<data, chunkLength, iteration, charFrequency, modes, delims, start, end,
               total, guess>>
hdrVars   == <<header, columnTypes, checked, seen, hasHeader, verdict>>
vars      == <<pc, sniffVars, freqVars, hdrVars>>

(***************************************************************************)
(* Bounds of the model.                                                    *)
(***************************************************************************)
MaxSampleLen == 4    \* characters of a sniffed sample
MaxLineLen   == 3    \* characters of a line given to the frequency detector
MaxRepeat    == 11   \* repetitions of a line given to the frequency detector
MaxCols      == 2    \* columns of a row given to the header detector

(***************************************************************************)
(* Characters.                                                             *)
(***************************************************************************)
NL == "\n"
SP == " "
DQ == "\""
SQ == "'"

\* chr(c) for c in range(127), restricted to the characters the inputs use
Ascii == {",", SP, "a", "b", DQ, SQ, ">", NL}

\* the characters str.strip() removes
Whitespace == {SP, "\t", NL}

\* \w without LOCALE/UNICODE
WordChars == {"a", "b"}

NoneValue == [none |-> TRUE, s |-> <<>>]
Str(s) == [none |-> FALSE, s |-> s]

Min(a, b) == IF a < b THEN a ELSE b

RECURSIVE SumOver(_, _)
SumOver(f, S) ==
    IF S = {} THEN 0
    ELSE LET x == CHOOSE y \in S : TRUE IN f[x] + SumOver(f, S \ {x})

(***************************************************************************)
(* String helpers of _guessDelimiter.                                      *)
(***************************************************************************)
\* line.strip()
RECURSIVE LStrip(_)
LStrip(line) ==
    IF line # <<>> /\ Head(line) \in Whitespace THEN LStrip(Tail(line)) ELSE line

RECURSIVE RStrip(_)
RStrip(line) ==
    IF line # <<>> /\ line[Len(line)] \in Whitespace
    THEN RStrip(SubSeq(line, 1, Len(line) - 1))
    ELSE line

Strip(line) == RStrip(LStrip(line))

\* line.count(char), char one character
Count(line, char) == Cardinality({i \in DOMAIN line : line[i] = char})

\* line.count("%c " % d): non-overlapping occurrences, scanned left to right
RECURSIVE CountFollowedBySpace(_, _, _)
CountFollowedBySpace(line, d, i) ==
    IF i + 1 > Len(line) THEN 0
    ELSE IF line[i] = d /\ line[i + 1] = SP
         THEN 1 + CountFollowedBySpace(line, d, i + 2)
         ELSE CountFollowedBySpace(line, d, i + 1)

\* data[0].count(d) == data[0].count("%c " % d)
SkipInitialSpace(lines, d) ==
    Count(lines[1], d) = CountFollowedBySpace(lines[1], d, 1)

\* filter(None, data.split('\n'))
RECURSIVE SplitLines(_, _)
SplitLines(s, cur) ==
    IF s = <<>> THEN (IF cur = <<>> THEN <<>> ELSE <<cur>>)
    ELSE IF Head(s) = NL
         THEN (IF cur = <<>> THEN <<>> ELSE <<cur>>) \o SplitLines(Tail(s), <<>>)
         ELSE SplitLines(Tail(s), Append(cur, Head(s)))

NonEmptyLines(s) == SplitLines(s, <<>>)

(***************************************************************************)
(* _guessDelimiter (lines 260-357).                                        *)
(***************************************************************************)
ChunkSize        == 10    \* min(10, len(data))
StartConsistency == 100   \* consistency = 1.0, in hundredths
Threshold        == 90    \* threshold = 0.9, in hundredths

\* variant: the space ahead of the comma
PreferredSpaceFirst == <<SP, ",", "\t", ";", ":">>

\* self.preferred
Preferred == <<",", "\t", ";", SP, ":">>

\* chunkLength = min(10, len(data))
ChunkLengthOf(lines) == Min(ChunkSize, Len(lines))

\* data[start:end]
Slice(lines, from, to) == SubSeq(lines, from + 1, Min(to, Len(lines)))

\* the occurrence counts a line of data can show: 0 .. the longest line
FreqRange(lines) ==
    0 .. (IF lines = <<>> THEN 0
          ELSE CHOOSE n \in {Len(lines[i]) : i \in DOMAIN lines} :
                 \A i \in DOMAIN lines : Len(lines[i]) <= n)

\* lines 292-299: add the lines of one chunk to the running histogram
Histogram(cf, chunk) ==
    [char \in Ascii |->
        [freq \in DOMAIN cf[char] |->
            cf[char][freq] +
            Cardinality({i \in DOMAIN chunk : Count(Strip(chunk[i]), char) = freq})]]

\* charFrequency[char].items(): the (frequency, tally) pairs present
Items(metafrequency) == {f \in DOMAIN metafrequency : metafrequency[f] > 0}

\* lines 306-316: reduce(lambda a, b: a[1] > b[1] and a or b, items) keeps the
\* later item on a tie; the items of a dict of small ints come in ascending
\* order.  The mode's tally is then reduced by the sum of the other tallies.
Mode(metafrequency) ==
    LET items == Items(metafrequency)
        top   == CHOOSE f \in items :
                    /\ \A g \in items : metafrequency[g] <= metafrequency[f]
                    /\ \A g \in items : metafrequency[g] = metafrequency[f] => g <= f
    IN  IF Cardinality(items) > 1
        THEN <<top, metafrequency[top] - SumOver(metafrequency, items \ {top})>>
        ELSE <<top, metafrequency[top]>>

\* lines 301-316: modes after the pass; a character seen zero times on every
\* line is skipped
UpdateModes(m, cf) ==
    LET counted == {char \in Ascii : Items(cf[char]) # {0} /\ Items(cf[char]) # {}}
    IN  [char \in (DOMAIN m) \cup counted |->
            IF char \in counted THEN Mode(cf[char]) ELSE m[char]]

\* the values consistency takes while consistency >= threshold.  Ten
\* subtractions of 0.01 from 1.0 give 0.8999999999999999 in IEEE doubles, so
\* the body runs for 1.0, 0.99, ..., 0.91 and not for 0.90.
Levels == {k \in Threshold + 1 .. StartConsistency : TRUE}

\* lines 326-329 at one consistency level
Candidates(m, tot, k) ==
    {c \in DOMAIN m : m[c][1] > 0 /\ m[c][2] > 0 /\ 100 * m[c][2] >= k * tot}

\* variant: the candidates are computed afresh in every pass
BuildDelimsAfresh(d, m, tot) ==
    LET good == {k \in Levels : Candidates(m, tot, k) # {}}
    IN  IF good = {} THEN <<>>
        ELSE LET k == CHOOSE x \in good : \A y \in good : y <= x
             IN  [c \in Candidates(m, tot, k) |-> m[c]]

\* lines 325-330: the loop runs only while delims is empty
BuildDelims(d, m, tot) ==
    LET good == {k \in Levels : Candidates(m, tot, k) # {}}
    IN  IF DOMAIN d # {} \/ good = {} THEN d
        ELSE LET k == CHOOSE x \in good : \A y \in good : y <= x
             IN  [c \in Candidates(m, tot, k) |-> m[c]]

\* total = float(chunkLength * iteration)
TotalOf(cl, it) == cl * it

\* variant: the window start is not moved
AdvanceEndOnly(s, e, cl) == <<s, e + cl>>

\* lines 339-340: start = end; end += chunkLength
Advance(s, e, cl) == <<e, e + cl>>

\* return ('', 0)
FailureResult == <<<<>>, FALSE>>

\* lines 279-289
GuessDelimiterBegin ==
    /\ pc = "guessDelimiter"
    /\ LET lines == NonEmptyLines(sample) IN
         /\ data' = lines
         /\ chunkLength' = ChunkLengthOf(lines)
         /\ iteration' = 0
         /\ charFrequency' = [char \in Ascii |-> [freq \in FreqRange(lines) |-> 0]]
         /\ modes' = <<>>
         /\ delims' = <<>>
         /\ start' = 0
         /\ end' = Min(ChunkLengthOf(lines), Len(lines))
    /\ pc' = "while"
    /\ UNCHANGED <<total, guess, sniffVars, hdrVars>>

\* lines 290-340: one pass of the while loop, the early return included
GuessDelimiterPass ==
    /\ pc = "while"
    /\ start < Len(data)
    /\ LET cf  == Histogram(charFrequency, Slice(data, start, end))
           m   == UpdateModes(modes, cf)
           tot == TotalOf(chunkLength, iteration + 1)
           d   == BuildDelims(delims, m, tot)
       IN  /\ iteration' = iteration + 1
           /\ charFrequency' = cf
           /\ modes' = m
           /\ total' = tot
           /\ delims' = d
           /\ IF Cardinality(DOMAIN d) = 1
              THEN LET delim == CHOOSE c \in DOMAIN d : TRUE
                   IN  /\ guess' = <<<<delim>>, SkipInitialSpace(data, delim)>>
                       /\ pc' = "returned"
                       /\ UNCHANGED <<start, end>>
              ELSE /\ start' = Advance(start, end, chunkLength)[1]
                   /\ end' = Advance(start, end, chunkLength)[2]
                   /\ UNCHANGED <<pc, guess>>
    /\ UNCHANGED <<data, chunkLength, sniffVars, hdrVars>>

\* lines 342-343
GuessDelimiterFail ==
    /\ pc = "while"
    /\ ~(start < Len(data))
    /\ DOMAIN delims = {}
    /\ guess' = FailureResult
    /\ pc' = "returned"
    /\ UNCHANGED <<data, chunkLength, iteration, charFrequency, modes, delims, start,
                   end, total, sniffVars, hdrVars>>

\* lines 346-351: the first preferred character that is a candidate
GuessDelimiterPreferred ==
    /\ pc = "while"
    /\ ~(start < Len(data))
    /\ Cardinality(DOMAIN delims) > 1
    /\ \E i \in DOMAIN Preferred :
         /\ Preferred[i] \in DOMAIN delims
         /\ \A j \in 1 .. i - 1 : Preferred[j] \notin DOMAIN delims
         /\ guess' = <<<<Preferred[i]>>, SkipInitialSpace(data, Preferred[i])>>
    /\ pc' = "returned"
    /\ UNCHANGED <<data, chunkLength, iteration, charFrequency, modes, delims, start,
                   end, total, sniffVars, hdrVars>>

\* lines 353-357: delims.keys()[0], whichever key the dict iterates first
GuessDelimiterFirst ==
    /\ pc = "while"
    /\ ~(start < Len(data))
    /\ DOMAIN delims # {}
    /\ ~(Cardinality(DOMAIN delims) > 1 /\
         \E i \in DOMAIN Preferred : Preferred[i] \in DOMAIN delims)
    /\ \E delim \in DOMAIN delims :
         guess' = <<<<delim>>, SkipInitialSpace(data, delim)>>
    /\ pc' = "returned"
    /\ UNCHANGED <<data, chunkLength, iteration, charFrequency, modes, delims, start,
                   end, total, sniffVars, hdrVars>>

(***************************************************************************)
(* The frequency detector on its own: _guessDelimiter(sample) for samples  *)
(* made of a line repeated up to MaxRepeat times, with at most one         *)
(* one-character line before or after it.                                  *)
(***************************************************************************)
FreqChars == {",", SP, "a", "b"}

Lines == UNION {[1 .. n -> FreqChars] : n \in 1 .. MaxLineLen}

RECURSIVE Repeat(_, _)
Repeat(line, k) == IF k = 0 THEN <<>> ELSE <<line>> \o Repeat(line, k - 1)

\* '\n'.join(lines) + '\n'
RECURSIVE JoinLines(_)
JoinLines(lines) ==
    IF lines = <<>> THEN <<>> ELSE Head(lines) \o <<NL>> \o JoinLines(Tail(lines))

OddLines == {<<>>} \cup {<<<<c>>>> : c \in FreqChars}

FreqSamples ==
    {JoinLines(before \o Repeat(line, k) \o after) :
        <<line, k, before, after>> \in
            {t \in Lines \X (0 .. MaxRepeat) \X OddLines \X OddLines :
                t[3] = <<>> \/ t[4] = <<>>}}

IdleSniff ==
    /\ quotechar = <<>> /\ delimiter = NoneValue /\ skipinitialspace = FALSE
    /\ winner = 0 /\ consulted = FALSE /\ dialect = NoneValue

IdleFreq ==
    /\ data = <<>> /\ chunkLength = 0 /\ iteration = 0 /\ charFrequency = <<>>
    /\ modes = <<>> /\ delims = <<>> /\ start = 0 /\ end = 0 /\ total = 0
    /\ guess = <<>>

IdleHdr ==
    /\ header = <<>> /\ columnTypes = <<>> /\ checked = 0 /\ seen = <<>>
    /\ hasHeader = 0 /\ verdict = FALSE

FreqInit ==
    /\ pc = "guessDelimiter"
    /\ sample \in FreqSamples
    /\ IdleSniff /\ IdleFreq /\ IdleHdr

FreqNext ==
    \/ GuessDelimiterBegin
    \/ GuessDelimiterPass
    \/ GuessDelimiterFail
    \/ GuessDelimiterPreferred
    \/ GuessDelimiterFirst

FreqSpec == FreqInit /\ [][FreqNext]_vars

(***************************************************************************)
(* _guessQuoteAndDelimiter (lines 196-257).  The four patterns are         *)
(* compiled with re.S | re.M; a match is tried at a position as the        *)
(* backtracking matcher tries it: the optional space greedily, then        *)
(* without it; .*? to the first position where the rest matches.           *)
(***************************************************************************)
At(s, i) == IF i \in 1 .. Len(s) THEN s[i] ELSE ""

\* ["\']
IsQuote(c) == c \in {DQ, SQ}

\* [^\w\n"\']
IsDelimChar(c) == c # "" /\ c \notin WordChars /\ c # NL /\ ~IsQuote(c)

\* ^ under re.M
AtLineStart(s, i) == i = 1 \/ At(s, i - 1) = NL

\* $ under re.M
AtLineEnd(s, i) == i = Len(s) + 1 \/ At(s, i) = NL

NoMatch == [ok |-> FALSE, end |-> 0, delim |-> <<>>, space |-> <<>>, quote |-> <<>>]
Match(e, d, sp, q) == [ok |-> TRUE, end |-> e, delim |-> d, space |-> sp, quote |-> q]

\* what follows the closing quote, per pattern
Closes(s, pat, j, d) ==
    CASE pat = 1 -> At(s, j + 1) = d             \* (?P=delim)
      [] pat = 2 -> IsDelimChar(At(s, j + 1))    \* (?P<delim>[^\w\n"\'])
      [] pat = 3 -> AtLineEnd(s, j + 1)          \* (?:$|\n)
      [] pat = 4 -> AtLineEnd(s, j + 1)          \* (?:$|\n)

\* (?P<quote>["\']).*?(?P=quote) with the opening quote at p: the position of
\* the first closing quote after which the pattern goes on matching, 0 if none
ClosingQuote(s, pat, p, d) ==
    LET js == {j \in p + 1 .. Len(s) : s[j] = s[p] /\ Closes(s, pat, j, d)}
    IN  IF ~IsQuote(At(s, p)) \/ js = {} THEN 0
        ELSE CHOOSE j \in js : \A k \in js : j <= k

\* the rest of patterns 1 and 3 once the delimiter is read: (?P<space> ?) and
\* the quoted span, the space first taken and then given back
DelimFirst(s, pat, p, d, dgroup) ==
    LET withSpace == IF At(s, p) = SP THEN ClosingQuote(s, pat, p + 1, d) ELSE 0
        without   == ClosingQuote(s, pat, p, d)
        after     == IF pat = 1 THEN 2 ELSE 1    \* pattern 1 consumes the delimiter
    IN  IF withSpace # 0
        THEN Match(withSpace + after, dgroup, <<SP>>, <<s[p + 1]>>)
        ELSE IF without # 0
             THEN Match(without + after, dgroup, <<>>, <<s[p]>>)
             ELSE NoMatch

\* the rest of patterns 2 and 4 with the opening quote at p
QuoteFirst(s, pat, p) ==
    LET j == ClosingQuote(s, pat, p, "")
    IN  IF j = 0 THEN NoMatch
        ELSE IF pat = 2
             THEN LET sp == IF At(s, j + 2) = SP THEN <<SP>> ELSE <<>>
                  IN  Match(j + 2 + Len(sp), <<s[j + 1]>>, sp, <<s[p]>>)
             ELSE Match(j + 1, <<>>, <<>>, <<s[p]>>)

\* (?:^|\n) followed by the rest of patterns 2 and 4
LineStartFirst(s, pat, i) ==
    LET viaCaret   == IF AtLineStart(s, i) THEN QuoteFirst(s, pat, i) ELSE NoMatch
        viaNewline == IF At(s, i) = NL THEN QuoteFirst(s, pat, i + 1) ELSE NoMatch
    IN  IF viaCaret.ok THEN viaCaret ELSE viaNewline

\* lines 209-212: the match of pattern pat starting at position i
\*   1  (?P<delim>[^\w\n"\'])(?P<space> ?)(?P<quote>["\']).*?(?P=quote)(?P=delim)
\*   2  (?:^|\n)(?P<quote>["\']).*?(?P=quote)(?P<delim>[^\w\n"\'])(?P<space> ?)
\*   3  (?P<delim>>[^\w\n"\'])(?P<space> ?)(?P<quote>["\']).*?(?P=quote)(?:$|\n)
\*   4  (?:^|\n)(?P<quote>["\']).*?(?P=quote)(?:$|\n)
\* In pattern 3 the group name ends at the first ">": the group is a ">"
\* followed by one character of the class.
MatchAt(s, pat, i) ==
    CASE pat = 1 ->
           IF IsDelimChar(At(s, i))
           THEN DelimFirst(s, pat, i + 1, s[i], <<s[i]>>)
           ELSE NoMatch
      [] pat = 3 ->
           IF At(s, i) = ">" /\ IsDelimChar(At(s, i + 1))
           THEN DelimFirst(s, pat, i + 2, "", <<s[i], s[i + 1]>>)
           ELSE NoMatch
      [] pat \in {2, 4} -> LineStartFirst(s, pat, i)
      [] OTHER -> NoMatch

\* regexp.findall(data): leftmost matches, each search resuming where the
\* last match ended
RECURSIVE FindAllFrom(_, _, _)
FindAllFrom(s, pat, pos) ==
    IF pos > Len(s) + 1 THEN <<>>
    ELSE LET m == MatchAt(s, pat, pos)
         IN  IF m.ok
             THEN <<m>> \o FindAllFrom(s, pat, IF m.end > pos THEN m.end ELSE pos + 1)
             ELSE FindAllFrom(s, pat, pos + 1)

FindAll(s, pat) == FindAllFrom(s, pat, 1)

Patterns == 1 .. 4

\* lines 209-216: the first pattern with a match, 0 if none has one
Winner(s) ==
    LET hit == {pat \in Patterns : FindAll(s, pat) # <<>>}
    IN  IF hit = {} THEN 0 ELSE CHOOSE pat \in hit : \A q \in hit : pat <= q

\* lines 221-241: how many matches captured key in the group
Tally(matches, group, key) ==
    Cardinality({i \in DOMAIN matches : matches[i][group] = key})

Keys(matches, group) ==
    {matches[i][group] : i \in DOMAIN matches} \ {<<>>}

\* reduce(lambda a, b: (t[a] > t[b]) and a or b, t.keys()) for the keys in the
\* order given
RECURSIVE Reduce(_, _, _, _)
Reduce(matches, group, acc, order) ==
    IF order = <<>> THEN acc
    ELSE Reduce(matches, group,
                IF Tally(matches, group, acc) > Tally(matches, group, Head(order))
                THEN acc ELSE Head(order),
                Tail(order))

\* the orders in which a dict may iterate its keys
Orders(S) ==
    {o \in [1 .. Cardinality(S) -> S] : \A i, j \in DOMAIN o : i # j => o[i] # o[j]}

\* the values reduce() can return over the keys of the group
Most(matches, group) ==
    {Reduce(matches, group, Head(o), Tail(o)) : o \in Orders(Keys(matches, group))}

\* lines 221-257: the (quotechar, delimiter, skipinitialspace) triples the
\* tallies of the winning pattern's matches can give
Scored(matches, spaces) ==
    IF Keys(matches, "delim") = {}
    THEN {<<q, Str(<<>>), FALSE>> : q \in Most(matches, "quote")}
    ELSE {<<q,
            Str(IF d = <<NL>> THEN <<>> ELSE d),
            Tally(matches, "delim", d) = spaces>> :
          q \in Most(matches, "quote"), d \in Most(matches, "delim")}

\* lines 240-241: the matches that captured a space
Spaces(matches) == Cardinality({i \in DOMAIN matches : matches[i].space # <<>>})

\* lines 218-219: return ('', None, 0) when no pattern matched
Guessed(pat, matches) ==
    IF pat = 0 THEN {<<<<>>, NoneValue, FALSE>>} ELSE Scored(matches, Spaces(matches))

\* lines 208-257: the triples _guessQuoteAndDelimiter can return
GuessQuoteAndDelimiter(s) == Guessed(Winner(s), FindAll(s, Winner(s)))

(***************************************************************************)
(* sniff (lines 160-185).  The name csv in "class Dialect(csv.Dialect)" is *)
(* read as this module.                                                    *)
(***************************************************************************)
\* variant: if not delimiter
NeedsFallbackWhenEmpty(d) == d = NoneValue \/ d.s = <<>>

\* line 171: if delimiter is None
NeedsFallback(d) == d = NoneValue

\* lines 165-171: read the sample and run the co-occurrence detector
SniffGuessQuoteAndDelimiter ==
    /\ pc = "sniff"
    /\ winner' = Winner(sample)
    /\ \E r \in GuessQuoteAndDelimiter(sample) :
         /\ quotechar' = r[1]
         /\ delimiter' = r[2]
         /\ skipinitialspace' = r[3]
         /\ pc' = IF NeedsFallback(r[2]) THEN "guessDelimiter" ELSE "assemble"
         /\ consulted' = NeedsFallback(r[2])
    /\ UNCHANGED <<sample, dialect, freqVars, hdrVars>>

\* line 172: delimiter, skipinitialspace = self._guessDelimiter(data)
SniffTakeGuess ==
    /\ pc = "returned"
    /\ delimiter' = Str(guess[1])
    /\ skipinitialspace' = guess[2]
    /\ pc' = "assemble"
    /\ UNCHANGED <<sample, quotechar, winner, consulted, dialect, freqVars, hdrVars>>

\* lines 174-185
SniffAssemble ==
    /\ pc = "assemble"
    /\ dialect' = [none |-> FALSE, delimiter |-> delimiter, quotechar |-> quotechar,
                   skipinitialspace |-> skipinitialspace]
    /\ pc' = "done"
    /\ UNCHANGED <<sample, quotechar, delimiter, skipinitialspace, winner, consulted,
                   freqVars, hdrVars>>

SniffChars == {DQ, SQ, "a", ",", ">", SP, NL}

SniffSamples == UNION {[1 .. n -> SniffChars] : n \in 0 .. MaxSampleLen}

Init ==
    /\ pc = "sniff"
    /\ sample \in SniffSamples
    /\ IdleSniff /\ IdleFreq /\ IdleHdr

Next ==
    \/ SniffGuessQuoteAndDelimiter
    \/ GuessDelimiterBegin
    \/ GuessDelimiterPass
    \/ GuessDelimiterFail
    \/ GuessDelimiterPreferred
    \/ GuessDelimiterFirst
    \/ SniffTakeGuess
    \/ SniffAssemble

Spec == Init /\ [][Next]_vars

(***************************************************************************)
(* _hasHeaders (lines 360-440).  The rows are what csv.reader yields for   *)
(* the rewound file object; a row is a sequence of cells, a cell a string. *)
(* Columns are numbered from 1.  A shape is a type (the result of          *)
(* type(seval(cell))) or a string length.                                  *)
(***************************************************************************)
RowLimit == 20    \* if checked > 20: break

Digits == {"1"}

Unset        == [kind |-> "none", name |-> "", n |-> 0]    \* None
TypeShape(t) == [kind |-> "type", name |-> t, n |-> 0]
LenShape(k)  == [kind |-> "len", name |-> "", n |-> k]

\* item.replace('(', '').replace(')', '')
Unparen(item) == SelectSeq(item, LAMBDA c : c \notin {"(", ")"})

\* the text is an integer literal
IsIntLiteral(t) == t # <<>> /\ \A i \in DOMAIN t : t[i] \in Digits

\* the text is a float literal: digits around one point, at least one digit
IsFloatLiteral(t) ==
    /\ Cardinality({i \in DOMAIN t : t[i] = "."}) = 1
    /\ \E i \in DOMAIN t : t[i] \in Digits
    /\ \A i \in DOMAIN t : t[i] \in Digits \cup {"."}

\* lines 403-413: type(seval(row[col])), or len(row[col]) when eval raises
ThisType(cell) ==
    IF IsIntLiteral(Unparen(cell)) THEN TypeShape("int")
    ELSE IF IsFloatLiteral(Unparen(cell)) THEN TypeShape("float")
    ELSE LenShape(Len(cell))

\* line 434: eval("%s(%s)" % (colType.__name__, header[col])) does not raise.
\* int() and float() take no argument or a number; None has no __name__.
Castable(colType, cell) ==
    /\ colType.kind = "type"
    /\ cell = <<>> \/ IsIntLiteral(cell) \/ IsFloatLiteral(cell)

\* variant: a changed shape replaces the column's entry
OverwriteColumnTypes(types, row) ==
    [col \in DOMAIN types |-> ThisType(row[col])]

\* lines 415-421: a first shape fills an unset entry, a changed shape removes
\* the column from the dict
UpdateColumnTypes(types, row) ==
    LET changed == {col \in DOMAIN types : ThisType(row[col]) # types[col]}
        dropped == {col \in changed : types[col] # Unset}
    IN  [col \in (DOMAIN types) \ dropped |->
            IF col \in changed THEN ThisType(row[col]) ELSE types[col]]

\* variant: a column whose shape is still None does not vote
VoteOfSkippingUnset(hdr, col, colType) ==
    IF colType.kind = "len"
    THEN (IF Len(hdr[col]) # colType.n THEN 1 ELSE -1)
    ELSE IF colType.kind = "none" THEN 0
    ELSE (IF Castable(colType, hdr[col]) THEN -1 ELSE 1)

\* lines 427-438: the vote of one column
VoteOf(hdr, col, colType) ==
    IF colType.kind = "len"
    THEN (IF Len(hdr[col]) # colType.n THEN 1 ELSE -1)
    ELSE (IF Castable(colType, hdr[col]) THEN -1 ELSE 1)

RECURSIVE SumVotes(_, _, _)
SumVotes(hdr, types, cols) ==
    IF cols = {} THEN 0
    ELSE LET col == CHOOSE c \in cols : TRUE
         IN  VoteOf(hdr, col, types[col]) + SumVotes(hdr, types, cols \ {col})

\* line 440: return hasHeader > 0
HeaderPresent(sum) == sum > 0

\* what the examined rows with the header's column count showed in a column:
\* nothing yet, one shape throughout, or more than one shape
Observe(s, shape) ==
    IF ~s.same THEN s
    ELSE IF s.first = Unset THEN [first |-> shape, same |-> TRUE]
    ELSE IF s.first = shape THEN s
    ELSE [first |-> Unset, same |-> FALSE]

HdrCells == {<<>>, <<"1">>, <<"a">>, <<"(", "1">>}

Rows == UNION {[1 .. n -> HdrCells] : n \in 0 .. MaxCols}

\* lines 379-392
HasHeadersBegin ==
    /\ pc = "hasHeaders"
    /\ \E first \in Rows :
         /\ header' = first
         /\ columnTypes' = [col \in 1 .. Len(first) |-> Unset]
         /\ seen' = [col \in 1 .. Len(first) |-> [first |-> Unset, same |-> TRUE]]
    /\ checked' = 0
    /\ pc' = "rows"
    /\ UNCHANGED <<hasHeader, verdict, sniffVars, freqVars>>

\* lines 393-421: one row of the loop
HasHeadersRow ==
    /\ pc = "rows"
    /\ ~(checked > RowLimit)
    /\ checked' = checked + 1
    /\ \E row \in Rows :
         IF Len(row) # Len(header)
         THEN UNCHANGED <<columnTypes, seen>>
         ELSE /\ columnTypes' = UpdateColumnTypes(columnTypes, row)
              /\ seen' = [col \in DOMAIN seen |-> Observe(seen[col], ThisType(row[col]))]
    /\ UNCHANGED <<pc, header, hasHeader, verdict, sniffVars, freqVars>>

\* lines 395-396: a further row arrives after the limit
HasHeadersBreak ==
    /\ pc = "rows"
    /\ checked > RowLimit
    /\ pc' = "vote"
    /\ UNCHANGED <<header, columnTypes, checked, seen, hasHeader, verdict, sniffVars,
                   freqVars>>

\* line 393: the reader has no more rows
HasHeadersExhausted ==
    /\ pc = "rows"
    /\ pc' = "vote"
    /\ UNCHANGED <<header, columnTypes, checked, seen, hasHeader, verdict, sniffVars,
                   freqVars>>

\* lines 423-440
HasHeadersVote ==
    /\ pc = "vote"
    /\ hasHeader' = SumVotes(header, columnTypes, DOMAIN columnTypes)
    /\ verdict' = HeaderPresent(SumVotes(header, columnTypes, DOMAIN columnTypes))
    /\ pc' = "voted"
    /\ UNCHANGED <<header, columnTypes, checked, seen, sniffVars, freqVars>>

HdrInit ==
    /\ pc = "hasHeaders"
    /\ sample = <<>>
    /\ IdleSniff /\ IdleFreq /\ IdleHdr

HdrNext ==
    \/ HasHeadersBegin
    \/ HasHeadersRow
    \/ HasHeadersBreak
    \/ HasHeadersExhausted
    \/ HasHeadersVote

HdrSpec == HdrInit /\ [][HdrNext]_vars

(***************************************************************************)
(* The claims.                                                             *)
(***************************************************************************)

\* C1: the dialect sniff returns has a delimiter of at most one character
\* and a quote character of at most one character.
C1_OneCharacter ==
    pc = "done" =>
        /\ ~dialect.delimiter.none
        /\ Len(dialect.delimiter.s) <= 1
        /\ Len(dialect.quotechar) <= 1

\* none of the four patterns has a match in the sample
NoPatternMatches == \A pat \in Patterns : FindAll(sample, pat) = <<>>

SpansEndingLine ==
    {<<i, p, j>> \in (1 .. Len(sample)) \X (1 .. Len(sample)) \X (1 .. Len(sample)) :
        /\ IsDelimChar(sample[i])
        /\ p = i + 1 \/ (p = i + 2 /\ sample[i + 1] = SP)
        /\ IsQuote(sample[p])
        /\ j > p
        /\ sample[j] = sample[p]
        /\ AtLineEnd(sample, j + 1)}

\* C7: when patterns (a) and (b) have no match and a quoted span that ends
\* a line is preceded by one non-word, non-quote, non-newline character
\* (with at most one space in between), pattern (c) matches and the
\* co-occurrence detector returns that character and the span's quote.
C7_ThirdPattern ==
    (/\ pc \in {"guessDelimiter", "assemble"}
     /\ FindAll(sample, 1) = <<>>
     /\ FindAll(sample, 2) = <<>>
     /\ SpansEndingLine # {})
    => /\ winner = 3
       /\ \E t \in SpansEndingLine :
            /\ delimiter = Str(<<sample[t[1]]>>)
            /\ quotechar = <<sample[t[2]]>>

\* c occurs exactly twice on every non-empty line and no other character has
\* the same positive count on every line
TwiceOnEveryLine(c) ==
    /\ data # <<>>
    /\ \A i \in DOMAIN data : Count(data[i], c) = 2
    /\ \A d \in Ascii \ {c} :
          ~\E n \in 1 .. MaxLineLen + 1 : \A i \in DOMAIN data : Count(data[i], d) = n

\* C4: with no quote characters and one character exactly twice on every
\* non-empty line, no other character having the same positive count on
\* every line, the frequency detector returns that character, accepted at
\* consistency 1.0.
C4_TwicePerLine ==
    pc = "returned" =>
        \A c \in Ascii :
            TwiceOnEveryLine(c) =>
                /\ guess[1] = <<c>>
                /\ c \in DOMAIN delims
                /\ delims[c][2] = total

\* the order the specification states: comma, tab, semicolon, space, colon
PreferenceOrder == <<",", "\t", ";", SP, ":">>

\* C5: when the sample is exhausted with more than one candidate, the
\* candidate first in the order comma, tab, semicolon, space, colon is
\* returned; another candidate only when none of the five is one; the
\* returned character is always a candidate.
C5_PreferenceOrder ==
    (pc = "returned" /\ Cardinality(DOMAIN delims) > 1) =>
        LET ranks == {i \in DOMAIN PreferenceOrder : PreferenceOrder[i] \in DOMAIN delims}
        IN  /\ Len(guess[1]) = 1
            /\ guess[1][1] \in DOMAIN delims
            /\ ranks # {} =>
                  \E i \in ranks :
                     /\ \A j \in ranks : i <= j
                     /\ guess[1][1] = PreferenceOrder[i]

C5_Witness ==
    /\ pc = "returned"
    /\ {",", SP, "a"} \subseteq DOMAIN delims
    /\ guess[1] = <<",">>

\* C6: the frequency detector terminates on every sample: the chunk size is
\* min(10, number of lines), after every pass that continues the window
\* start has moved forward by one chunk of at least one line, so the number
\* of passes never exceeds the number of chunks of lines (none at all for an
\* empty sample), and with the lines exhausted and no candidate the detector
\* returns ('', 0).
C6_Terminates ==
    /\ pc \in {"while", "returned"} =>
          /\ chunkLength = (IF Len(data) < 10 THEN Len(data) ELSE 10)
          /\ data = <<>> => iteration = 0
          /\ data # <<>> => chunkLength >= 1 /\ (iteration - 1) * chunkLength < Len(data)
    /\ pc = "while" => start = iteration * chunkLength
    /\ (pc = "returned" /\ DOMAIN delims = {}) =>
          (~(start < Len(data)) /\ guess = <<<<>>, FALSE>>)

C6_Witness ==
    /\ pc = "returned"
    /\ Len(data) \in 2 .. 9
    /\ DOMAIN delims = {}
    /\ guess = <<<<>>, FALSE>>

\* C8: in every pass the denominator of the consistency fraction is the
\* number of lines in the running histogram.
C8_Denominator ==
    (pc \in {"while", "returned"} /\ iteration > 0) =>
        \A c \in Ascii : total = SumOver(charFrequency[c], DOMAIN charFrequency[c])

\* C9: once a pass has ended with two or more candidates, no later pass
\* adds or removes a candidate, the single-candidate return no longer
\* happens, and what is returned is one of those candidates.
C9_CandidatesKept ==
    [][(pc = "while" /\ Cardinality(DOMAIN delims) >= 2) =>
          /\ delims' = delims
          /\ pc' = "returned" =>
                /\ ~(start < Len(data))
                /\ Len(guess'[1]) = 1
                /\ guess'[1][1] \in DOMAIN delims]_vars

C9_Witness ==
    /\ pc = "while"
    /\ iteration >= 2
    /\ Cardinality(DOMAIN delims) >= 2
    /\ \E c \in DOMAIN delims : modes[c] # delims[c]

\* the columns whose shape was the same on every examined row that has the
\* header's column count, and the vote the specification gives each
Voters == {col \in DOMAIN seen : seen[col].same}

ClaimedVote(col) ==
    LET shape == seen[col].first
    IN  IF shape.kind = "len"
        THEN (IF Len(header[col]) = shape.n THEN -1 ELSE 1)
        ELSE IF shape.kind = "type" /\
                (header[col] = <<>> \/ IsIntLiteral(header[col])
                    \/ IsFloatLiteral(header[col]))
             THEN -1 ELSE 1

RECURSIVE ClaimedSum(_)
ClaimedSum(cols) ==
    IF cols = {} THEN 0
    ELSE LET col == CHOOSE c \in cols : TRUE
         IN  ClaimedVote(col) + ClaimedSum(cols \ {col})

NoComparableRow ==
    /\ Len(header) >= 1
    /\ \A col \in DOMAIN seen : seen[col] = [first |-> Unset, same |-> TRUE]

====
